---- MODULE Spec2Model ----
(***************************************************************************)
(* har_downloader.py: rebuild one video from the fragment requests         *)
(* recorded in a browser capture (.har) file.                              *)
(*                                                                         *)
(* A Python str is modelled as a sequence of one-character strings, so     *)
(* that split, replace, rstrip, endswith, "in" and slicing are computed    *)
(* character by character, as Python computes them.  Paths follow ntpath   *)
(* (os.path on Windows): the program splits paths on the backslash         *)
(* (line 95) and hands subprocess.call a command string (lines 103, 122),  *)
(* which is how processes are started on that platform.                    *)
(***************************************************************************)
EXTENDS Integers, Sequences, FiniteSets, TLC

(* ------------------------------------------------------------------ *)
(* Python str operations                                                *)
(* ------------------------------------------------------------------ *)

\* s.endswith(suffix)
EndsWith(s, suffix) ==
    /\ Len(suffix) <= Len(s)
    /\ SubSeq(s, Len(s) - Len(suffix) + 1, Len(s)) = suffix

\* s.startswith(prefix)
StartsWith(s, prefix) ==
    /\ Len(prefix) <= Len(s)
    /\ SubSeq(s, 1, Len(prefix)) = prefix

\* pat in s
Contains(s, pat) ==
    \E k \in 0..(Len(s) - Len(pat)) : SubSeq(s, k + 1, k + Len(pat)) = pat

\* s.split(sep) for a one-character separator: always at least one token
RECURSIVE Split(_, _)
Split(s, sep) ==
    LET hits == {k \in 1..Len(s) : s[k] = sep}
    IN  IF hits = {} THEN <<s>>
        ELSE LET k == CHOOSE x \in hits : \A y \in hits : x <= y
             IN  <<SubSeq(s, 1, k - 1)>> \o Split(SubSeq(s, k + 1, Len(s)), sep)

\* sep.join(parts)
RECURSIVE JoinStr(_, _)
JoinStr(sep, parts) ==
    IF parts = <<>> THEN <<>>
    ELSE IF Len(parts) = 1 THEN parts[1]
    ELSE parts[1] \o sep \o JoinStr(sep, Tail(parts))

\* s.replace(old, new): leftmost, non-overlapping occurrences (old non-empty)
RECURSIVE Replace(_, _, _)
Replace(s, old, new) ==
    IF Len(s) < Len(old) THEN s
    ELSE IF StartsWith(s, old)
         THEN new \o Replace(SubSeq(s, Len(old) + 1, Len(s)), old, new)
         ELSE <<s[1]>> \o Replace(Tail(s), old, new)

\* s.rstrip(chars): drop trailing characters that are in the set chars
RECURSIVE RStrip(_, _)
RStrip(s, chars) ==
    IF s # <<>> /\ s[Len(s)] \in chars
    THEN RStrip(SubSeq(s, 1, Len(s) - 1), chars)
    ELSE s

\* s[-n:]
LastN(s, n) == IF Len(s) <= n THEN s ELSE SubSeq(s, Len(s) - n + 1, Len(s))

Digits == {"0", "1", "2", "3", "4", "5", "6", "7", "8", "9"}

\* re.findall(r'\d+', s): the maximal runs of decimal digits, left to right
RECURSIVE FindAllDigits(_)
FindAllDigits(s) ==
    LET starts == {k \in 1..Len(s) : s[k] \in Digits}
    IN  IF starts = {} THEN <<>>
        ELSE LET b == CHOOSE x \in starts : \A y \in starts : x <= y
                 stops == {k \in b..Len(s) : k = Len(s) \/ s[k + 1] \notin Digits}
                 e == CHOOSE x \in stops : \A y \in stops : x <= y
             IN  <<SubSeq(s, b, e)>> \o FindAllDigits(SubSeq(s, e + 1, Len(s)))

(* ------------------------------------------------------------------ *)
(* String literals of the program                                       *)
(* ------------------------------------------------------------------ *)

QUOTE == "\""
BSLASH == "\\"
SLASH == "/"
NEWLINE == "\n"
\* the grave accent, which a TLA+ string cannot hold
BACKTICK == "grave"

S_mp4 == <<".", "m", "p", "4">>
S_ts == <<".", "t", "s">>
S_aac == <<".", "a", "a", "c">>
S_value == <<"v", "a", "l", "u", "e">>
S_fragments == <<"f", "r", "a", "g", "m", "e", "n", "t", "s">>
S_temp == <<"t", "e", "m", "p">>
S_files_txt == <<"f", "i", "l", "e", "s", ".", "t", "x", "t">>
S_zeros == <<"0", "0", "0", "0", "0", "0", "0">>
S_ext_aac == <<"a", "a", "c">>
HarStripChars == {".", "h", "a", "r"}
ForbiddenChars ==
    {".", ",", "=", "+", "(", ")", "?", "'", "|", "*", "&", "^", "%", "$", "#", "@", "!", BACKTICK}

(* ------------------------------------------------------------------ *)
(* os.path (ntpath) and the file system                                 *)
(* ------------------------------------------------------------------ *)

Seps == {BSLASH, SLASH}

\* os.path.basename(p): what follows the last separator
basename(p) ==
    LET hits == {k \in 1..Len(p) : p[k] \in Seps}
    IN  IF hits = {} THEN p
        ELSE LET k == CHOOSE x \in hits : \A y \in hits : y <= x
             IN  SubSeq(p, k + 1, Len(p))

\* os.path.join(a, b) for a relative b: a separator is added only after a
\* non-empty a that does not already end in one
join(a, b) ==
    IF a # <<>> /\ a[Len(a)] \notin Seps THEN a \o <<BSLASH>> \o b ELSE a \o b

\* The file system resolves a relative path to its components: both
\* separators count and empty components vanish.
RECURSIVE Components(_)
Components(p) ==
    LET hits == {k \in 1..Len(p) : p[k] \in Seps}
    IN  IF hits = {} THEN (IF p = <<>> THEN <<>> ELSE <<p>>)
        ELSE LET k == CHOOSE x \in hits : \A y \in hits : x <= y
                 head == SubSeq(p, 1, k - 1)
             IN  (IF head = <<>> THEN <<>> ELSE <<head>>)
                     \o Components(SubSeq(p, k + 1, Len(p)))

\* the directory holding a resolved path
Parent(c) == SubSeq(c, 1, Len(c) - 1)

\* c is d or lies below d
Below(c, d) == Len(d) <= Len(c) /\ SubSeq(c, 1, Len(d)) = d

(* ------------------------------------------------------------------ *)
(* Pure functions of the program                                        *)
(* ------------------------------------------------------------------ *)

\* har_line_filter (line 41)
har_line_filter(line) ==
    /\ Contains(line, S_mp4) \/ Contains(line, S_ts) \/ Contains(line, S_aac)
    /\ ~Contains(line, S_value)

\* the lines of the capture the list comprehension of line 50 visits
CandidateLines(text) ==
    SelectSeq(Split(text, NEWLINE), LAMBDA line : har_line_filter(line))

\* line.split('"')[3] raises IndexError on a line with fewer than 4 tokens
ScanRaises(text) ==
    \E k \in 1..Len(CandidateLines(text)) :
        Len(Split(CandidateLines(text)[k], QUOTE)) < 4

\* get_video_links_from_har without the extension filter of line 51
get_video_links_from_har_unfiltered(text) ==
    LET cand == CandidateLines(text)
    IN  [k \in 1..Len(cand) |-> Split(cand[k], QUOTE)[4]]

\* get_video_links_from_har, given the text read from the capture file
get_video_links_from_har(text) ==
    LET cand == CandidateLines(text)
        video_links == [k \in 1..Len(cand) |-> Split(cand[k], QUOTE)[4]]
    IN  SelectSeq(video_links,
                  LAMBDA link : EndsWith(link, S_ts) \/ EndsWith(link, S_aac))

\* re.findall(r'\d+', video_link)[-1] raises IndexError without a digit
NumberRaises(video_link) == FindAllDigits(video_link) = <<>>

\* number = ("0000000" + re.findall(r'\d+', video_link)[-1])[-5:]
NumberOf(video_link) ==
    LET runs == FindAllDigits(video_link)
    IN  LastN(S_zeros \o runs[Len(runs)], 5)

\* extension = video_link.split(".")[-1]
ExtensionOf(video_link) ==
    LET parts == Split(video_link, ".")
    IN  parts[Len(parts)]

\* file_path_i.format(number=number, extension=extension)
OutPath(out, video_link) ==
    join(join(out, S_fragments),
         basename(out) \o <<"_">> \o NumberOf(video_link) \o <<".">>
             \o ExtensionOf(video_link))

\* temp_fragment_path of line 119
TempFragmentPath(audio_file) ==
    Replace(Replace(audio_file, S_aac, S_mp4), S_fragments, S_temp)

\* the manifest entry written for a path (line 95)
ManifestEntry(path) ==
    LET parts == Split(path, BSLASH)
    IN  JoinStr(<<BSLASH>>, Tail(parts))

\* str.lower() on the answers the operator can type
Lower(choice) == IF choice = "Y" THEN "y" ELSE IF choice = "N" THEN "n" ELSE choice

\* safe_user_choice taking a second invalid answer for a yes
safe_user_choice_default_yes(answers) ==
    IF Lower(answers[1]) \in {"y", "n"} THEN Lower(answers[1])
    ELSE IF Lower(answers[2]) \in {"y", "n"} THEN Lower(answers[2])
    ELSE "y"

\* safe_user_choice(prompt, "y", "n") on the answers typed, one per attempt
safe_user_choice(answers) ==
    IF Lower(answers[1]) \in {"y", "n"} THEN Lower(answers[1])
    ELSE IF Lower(answers[2]) \in {"y", "n"} THEN Lower(answers[2])
    ELSE "AssertionError"

\* the size below which the final output is suspect (line 142)
SizeLimit == 10000

(* ------------------------------------------------------------------ *)
(* State                                                                *)
(* ------------------------------------------------------------------ *)

VARIABLES
    pc,                  \* the function main() is in
    status,              \* "running", or how the process ended
    argv,                \* [har_path, output]: the parsed command line
    capture,             \* the capture's lines as token lists, as generated
    output_path,         \* get_inputs' output_path
    video_path,          \* the final output's path
    video_links,         \* the locators the scan returned
    i,                   \* position of the running for loop (1-based)
    video_file_paths,    \* download_video_fragments' video list
    audio_file_paths,    \* download_video_fragments' audio list
    mp4_fragment_paths,  \* separate_audio_concat's temporary outputs
    concat_list,         \* integrated_audio_concat's video_file_paths argument
    mode,                \* "integrated" or "separate", once fragment_concat chose
    files,               \* the disk: resolved path -> [kind, data, size]
    dirs,                \* the disk: resolved paths of the directories
    effects,             \* the calls and side effects so far, in order
    run                  \* calls of download_video_fragments so far

vars == <<pc, status, argv, capture, output_path, video_path, video_links, i,
          video_file_paths, audio_file_paths, mp4_fragment_paths, concat_list,
          mode, files, dirs, effects, run>>

\* one entry of effects
Ev(op, a, b, c) == [op |-> op, a |-> a, b |-> b, c |-> c]

\* one file of the disk
File(kind, data, size) == [kind |-> kind, data |-> data, size |-> size]

\* os.path.exists(p)
Exists(fs, ds, p) ==
    /\ p # <<>>
    /\ Components(p) \in DOMAIN fs \/ Components(p) \in ds

\* os.path.isfile-like test used for the external process's inputs
IsFile(fs, p) == p # <<>> /\ Components(p) \in DOMAIN fs

\* the directories os.makedirs(p) leaves on disk
MakeDirs(ds, p) ==
    ds \cup {SubSeq(Components(p), 1, n) : n \in 1..Len(Components(p))}

\* a file can be created at p: its directory exists
CanCreate(ds, p) == p # <<>> /\ Components(p) # <<>> /\ Parent(Components(p)) \in ds

\* the disk after writing file f at p
WriteFile(fs, p, f) ==
    [c \in DOMAIN fs \cup {Components(p)} |->
        IF c = Components(p) THEN f ELSE fs[c]]

\* the disk after os.remove(p)
RemoveFile(fs, p) == [c \in DOMAIN fs \ {Components(p)} |-> fs[c]]

\* the disk after shutil.rmtree(p)
RmTreeFiles(fs, p) ==
    [c \in {x \in DOMAIN fs : ~Below(x, Components(p))} |-> fs[c]]

RmTreeDirs(ds, p) == {x \in ds : ~Below(x, Components(p))}

\* the sequence holds x
InSeq(x, seq) == \E k \in 1..Len(seq) : seq[k] = x

(* ------------------------------------------------------------------ *)
(* Inputs                                                               *)
(* ------------------------------------------------------------------ *)

\* longest capture, in lines, and longest locator list
MaxLines == 2

\* calls of download_video_fragments over one locator list
MaxRuns == 2

U_s1_ts == <<"h", "/", "s", "1", ".", "t", "s">>
U_t1_ts == <<"h", "/", "t", "1", ".", "t", "s">>
U_s2_ts == <<"h", "/", "s", "2", ".", "t", "s">>
U_s1_aac == <<"h", "/", "s", "1", ".", "a", "a", "c">>
U_s_ts == <<"h", "/", "s", ".", "t", "s">>
U_v_mp4 == <<"h", "/", "v", ".", "m", "p", "4">>

\* a capture line  "u":"<url>",  as its double-quote-delimited tokens
UrlLine(url) == <<<<>>, <<"u">>, <<":">>, url, <<",">>>>

\* the kinds of line a capture is made of here
CaptureLines ==
    {UrlLine(U_s1_ts), UrlLine(U_t1_ts), UrlLine(U_s2_ts), UrlLine(U_s1_aac),
     UrlLine(U_s_ts), UrlLine(U_v_mp4),
     <<<<>>, S_value, <<":">>, U_s2_ts, <<",">>>>,
     <<<<"v">> \o S_mp4>>}

\* the text of a line, and of a capture
LineText(tokens) == JoinStr(<<QUOTE>>, tokens)

CaptureText(lines) ==
    JoinStr(<<NEWLINE>>, [k \in 1..Len(lines) |-> LineText(lines[k])])

Captures == UNION {[1..n -> CaptureLines] : n \in 0..MaxLines}

N_o_har == <<"o", ".", "h", "a", "r">>
N_o_u_har == <<"o", ".", "u", ".", "h", "a", "r">>

\* the command lines tried
Argvs ==
    {[har_path |-> N_o_har, output |-> <<>>],
     [har_path |-> N_o_u_har, output |-> <<>>],
     [har_path |-> N_o_har, output |-> <<"u", BSLASH, "o">>],
     [har_path |-> N_o_har, output |-> S_fragments],
     [har_path |-> N_o_har, output |-> <<"u", "$">>]}

\* what the operator may type at the overwrite prompt
Answers == {"y", "n", "Y", "x"}

\* the sizes the final output may have
Sizes == {SizeLimit - 1, SizeLimit, SizeLimit + 1}

(* ------------------------------------------------------------------ *)
(* Initial states: a command line, a capture file, and what an earlier  *)
(* run of the program with the same command line left on disk           *)
(* ------------------------------------------------------------------ *)

\* lines 162-165
OutputPathOf(a) ==
    IF a.output = <<>> THEN RStrip(basename(a.har_path), HarStripChars)
    ELSE a.output

\* lines 167-168
VideoPathOf(out) == join(out, basename(out) \o S_mp4)

\* file_list_path as the file system sees it (lines 92 and 146)
ManifestPath(out) == join(out, S_files_txt)

\* the fragment paths a locator list maps to
PathsOf(out, links) ==
    {OutPath(out, links[k]) : k \in {x \in 1..Len(links) : ~NumberRaises(links[x])}}

\* the locators of a capture, none when the scan raises
LinksOf(lines) ==
    IF ScanRaises(CaptureText(lines)) THEN <<>>
    ELSE get_video_links_from_har(CaptureText(lines))

OldFragment == File("fragment", <<>>, 0)

\* an earlier run stopped during the fetch, with the fragments in have
DiskInterrupted(out, have) ==
    [files |-> [c \in {Components(p) : p \in have} |-> OldFragment],
     dirs |-> IF have = {} THEN {<<>>}
              ELSE MakeDirs({<<>>}, join(out, S_fragments))]

\* an earlier run ended with a suspect output: everything was left
DiskWarned(out, all) ==
    [files |-> [c \in {Components(p) : p \in all}
                        \cup {Components(ManifestPath(out)), Components(VideoPathOf(out))} |->
                    IF c = Components(VideoPathOf(out)) THEN File("video", <<>>, SizeLimit - 1)
                    ELSE IF c = Components(ManifestPath(out)) THEN File("manifest", <<>>, 0)
                    ELSE OldFragment],
     dirs |-> MakeDirs({<<>>}, join(out, S_fragments))]

\* an earlier run completed and cleaned up
DiskComplete(out) ==
    [files |-> [c \in {Components(VideoPathOf(out))} |-> File("video", <<>>, SizeLimit + 1)],
     dirs |-> MakeDirs({<<>>}, out)]

PriorDisks(out, all) ==
    {DiskInterrupted(out, have) : have \in SUBSET all}
        \cup (IF all = {} \/ out = <<>> THEN {} ELSE {DiskWarned(out, all)})
        \cup (IF out = <<>> THEN {} ELSE {DiskComplete(out)})

\* the state every call starts from
Fresh ==
    /\ status = "running"
    /\ output_path = <<>>
    /\ video_path = <<>>
    /\ video_links = <<>>
    /\ i = 0
    /\ video_file_paths = <<>>
    /\ audio_file_paths = <<>>
    /\ mp4_fragment_paths = <<>>
    /\ concat_list = <<>>
    /\ mode = "none"
    /\ effects = <<>>
    /\ run = 0

Init ==
    /\ pc = "get_inputs"
    /\ Fresh
    /\ argv \in Argvs
    /\ capture \in Captures
    /\ \E disk \in PriorDisks(OutputPathOf(argv), PathsOf(OutputPathOf(argv), LinksOf(capture))),
          har_present \in BOOLEAN :
        /\ dirs = disk.dirs
        /\ files = IF har_present
                   THEN WriteFile(disk.files, argv.har_path,
                                  File("har", <<CaptureText(capture)>>, 0))
                   ELSE disk.files

(* ------------------------------------------------------------------ *)
(* main()                                                               *)
(* ------------------------------------------------------------------ *)

\* the input() calls of safe_user_choice (line 23) with the answers they
\* read: the second attempt happens only after an invalid first answer
InputEffects(answers) ==
    IF Lower(answers[1]) \in {"y", "n"}
    THEN <<Ev("input", <<answers[1]>>, <<>>, <<>>)>>
    ELSE <<Ev("input", <<answers[1]>>, <<>>, <<>>), Ev("input", <<answers[2]>>, <<>>, <<>>)>>

\* the process ends: an uncaught exception, sys.exit() or main's return
Exit(how) == pc' = "exit" /\ status' = how

\* get_inputs (lines 151-176), safe_user_choice included
get_inputs ==
    /\ pc = "get_inputs"
    /\ UNCHANGED <<argv, capture, video_links, i, video_file_paths, audio_file_paths,
                   mp4_fragment_paths, concat_list, mode, dirs, run>>
    /\ IF ~Exists(files, dirs, argv.har_path)
          \/ \E k \in 1..Len(argv.output) : argv.output[k] \in ForbiddenChars
       THEN /\ Exit("InputError")
            /\ UNCHANGED <<output_path, video_path, files, effects>>
       ELSE /\ output_path' = OutputPathOf(argv)
            /\ video_path' = VideoPathOf(output_path')
            /\ IF ~Exists(files, dirs, video_path')
               THEN /\ pc' = "get_video_links_from_har"
                    /\ UNCHANGED <<status, files, effects>>
               ELSE \E answers \in Answers \X Answers :
                        LET choice == safe_user_choice(answers)
                            eff1 == effects \o InputEffects(answers)
                        IN  IF choice = "AssertionError"
                            THEN /\ Exit("TooManyInvalidChoices")
                                 /\ effects' = eff1
                                 /\ UNCHANGED files
                            ELSE IF choice # "y"
                            THEN /\ Exit("declined")
                                 /\ effects' = eff1
                                 /\ UNCHANGED files
                            ELSE /\ pc' = "get_video_links_from_har"
                                 /\ files' = RemoveFile(files, video_path')
                                 /\ effects' = Append(eff1, Ev("remove", video_path', <<>>, <<>>))
                                 /\ UNCHANGED status

\* get_video_links_from_har called after the output directory was made
scan_after_makedirs ==
    /\ pc = "get_video_links_from_har"
    /\ UNCHANGED <<argv, capture, output_path, video_path, i, video_file_paths,
                   audio_file_paths, mp4_fragment_paths, concat_list, mode, files, run>>
    /\ dirs' = MakeDirs(dirs, output_path)
    /\ effects' = Append(effects, Ev("makedirs", output_path, <<>>, <<>>))
    /\ LET har_file == files[Components(argv.har_path)].data[1]
       IN  IF ScanRaises(har_file)
           THEN Exit("ExtractionError") /\ UNCHANGED video_links
           ELSE /\ video_links' = get_video_links_from_har(har_file)
                /\ pc' = "download_video_fragments"
                /\ UNCHANGED status

\* get_video_links_from_har (lines 44-51)
scan ==
    /\ pc = "get_video_links_from_har"
    /\ UNCHANGED <<argv, capture, output_path, video_path, i, video_file_paths,
                   audio_file_paths, mp4_fragment_paths, concat_list, mode, files,
                   dirs, effects, run>>
    /\ LET har_file == files[Components(argv.har_path)].data[1]
       IN  IF ScanRaises(har_file)
           THEN Exit("ExtractionError") /\ UNCHANGED video_links
           ELSE /\ video_links' = get_video_links_from_har(har_file)
                /\ pc' = "download_video_fragments"
                /\ UNCHANGED status

\* safe_makedirs (lines 33-36): the directories after the call
safe_makedirs(fs, ds, dir_path) ==
    IF ~Exists(fs, ds, dir_path) THEN MakeDirs(ds, dir_path) ELSE ds

\* what safe_makedirs adds to effects
MkdirEffects(fs, ds, dir_path) ==
    IF ~Exists(fs, ds, dir_path) THEN <<Ev("makedirs", dir_path, <<>>, <<>>)>> ELSE <<>>

\* download_video_fragments up to its loop (lines 57-64)
download_enter ==
    /\ pc = "download_video_fragments"
    /\ UNCHANGED <<argv, capture, output_path, video_path, video_links,
                   mp4_fragment_paths, concat_list, mode, files>>
    /\ run' = run + 1
    /\ IF output_path = <<>>
       THEN \* os.makedirs("") raises FileNotFoundError
            /\ Exit("FileNotFoundError")
            /\ effects' = Append(effects, Ev("call", output_path, <<>>, <<>>))
            /\ UNCHANGED <<i, video_file_paths, audio_file_paths, dirs>>
       ELSE LET fragment_dir_path == join(output_path, S_fragments)
                dirs1 == safe_makedirs(files, dirs, output_path)
            IN  /\ dirs' = safe_makedirs(files, dirs1, fragment_dir_path)
                /\ effects' = Append(effects, Ev("call", output_path, <<>>, <<>>))
                                  \o MkdirEffects(files, dirs, output_path)
                                  \o MkdirEffects(files, dirs1, fragment_dir_path)
                /\ video_file_paths' = <<>>
                /\ audio_file_paths' = <<>>
                /\ i' = 1
                /\ pc' = "download_loop"
                /\ UNCHANGED status

\* what urlretrieve may do: fetch the file, fail leaving nothing, or fail
\* part way and leave a truncated file
Transfers == {"ok", "failed", "truncated"}

\* line 70 without its test: nothing on disk counts as stale
IsStale_Never(fs, ds, out_path, vids, auds) == FALSE

\* line 70 without the lists: whatever is on disk counts as stale
IsStale_AnyExisting(fs, ds, out_path, vids, auds) == Exists(fs, ds, out_path)

\* the test of line 70: the path is on disk and already recorded
IsStale(fs, ds, out_path, vids, auds) ==
    Exists(fs, ds, out_path) /\ (InSeq(out_path, vids) \/ InSeq(out_path, auds))

\* line 73 without its test: every locator is fetched
NeedsFetch_Always(fs, ds, out_path) == TRUE

\* the test of line 73
NeedsFetch(fs, ds, out_path) == ~Exists(fs, ds, out_path)

\* line 76 without its test: no path counts as recorded
IsDuplicate_Never(out_path, vids, auds) == FALSE

\* line 76 looking in the audio list alone
IsDuplicate_AudioOnly(out_path, vids, auds) == InSeq(out_path, auds)

\* the test of line 76
IsDuplicate(out_path, vids, auds) == InSeq(out_path, auds) \/ InSeq(out_path, vids)

\* line 81 without its test: every fragment goes to the video list
IsAudio_Never(extension) == FALSE

\* the test of line 81
IsAudio(extension) == extension = S_ext_aac

\* one iteration of the loop of download_video_fragments (lines 65-84)
download_step ==
    /\ pc = "download_loop"
    /\ i <= Len(video_links)
    /\ UNCHANGED <<argv, capture, output_path, video_path, video_links,
                   mp4_fragment_paths, concat_list, mode, dirs, run>>
    /\ LET video_link == video_links[i]
       IN  IF NumberRaises(video_link)
           THEN /\ Exit("IndexError")
                /\ UNCHANGED <<i, video_file_paths, audio_file_paths, files, effects>>
           ELSE LET extension == ExtensionOf(video_link)
                    out_path == OutPath(output_path, video_link)
                    stale == IsStale(files, dirs, out_path, video_file_paths, audio_file_paths)
                    files1 == IF stale THEN RemoveFile(files, out_path) ELSE files
                    eff1 == IF stale THEN Append(effects, Ev("remove", out_path, <<>>, <<>>))
                            ELSE effects
                    fetch == NeedsFetch(files1, dirs, out_path)
                    eff2 == IF fetch
                            THEN Append(eff1, Ev("urlretrieve", video_link, <<>>, out_path))
                            ELSE eff1
                IN  \E transfer \in (IF fetch THEN Transfers ELSE {"ok"}) :
                        /\ effects' = eff2
                        /\ IF transfer # "ok"
                           THEN /\ files' = IF transfer = "truncated"
                                            THEN WriteFile(files1, out_path,
                                                           File("truncated", <<video_link>>, 0))
                                            ELSE files1
                                /\ Exit("TransferError")
                                /\ UNCHANGED <<i, video_file_paths, audio_file_paths>>
                           ELSE /\ files' = IF fetch
                                            THEN WriteFile(files1, out_path,
                                                           File("fragment", <<video_link>>, 0))
                                            ELSE files1
                                /\ i' = i + 1
                                /\ UNCHANGED <<pc, status>>
                                /\ IF IsDuplicate(out_path, video_file_paths, audio_file_paths)
                                   THEN UNCHANGED <<video_file_paths, audio_file_paths>>
                                   ELSE IF IsAudio(extension)
                                   THEN /\ audio_file_paths' = Append(audio_file_paths, out_path)
                                        /\ UNCHANGED video_file_paths
                                   ELSE /\ video_file_paths' = Append(video_file_paths, out_path)
                                        /\ UNCHANGED audio_file_paths

\* the return of download_video_fragments and main's unpacking of it
\* (lines 86 and 185)
download_return ==
    /\ pc = "download_loop"
    /\ i > Len(video_links)
    /\ LET returned == <<audio_file_paths, video_file_paths>>
       IN  /\ audio_file_paths' = returned[1]
           /\ video_file_paths' = returned[2]
    /\ pc' = "fragment_concat"
    /\ UNCHANGED <<status, argv, capture, output_path, video_path, video_links, i,
                   mp4_fragment_paths, concat_list, mode, files, dirs, effects, run>>

(* ------------------------------------------------------------------ *)
(* Reassembly.  The external muxing process is a black box: a call may  *)
(* write its output or fail, and its status is not inspected.  It can    *)
(* write only where the directory exists and only from inputs it finds. *)
(* ------------------------------------------------------------------ *)

\* lines 109-110 without the assertion
CountsDiffer_Never(vids, auds) == FALSE

\* the length test of lines 109-110
CountsDiffer(vids, auds) ==
    LET n_audio == Len(vids)
        n_video == Len(auds)
    IN  n_audio # n_video

\* temp_dir_path (line 112)
TempDirPath(out) == join(out, S_temp)

\* fragment_concat up to the work of the strategy it selects
\* (lines 135-138, and 109-117 of separate_audio_concat)
fragment_concat ==
    /\ pc = "fragment_concat"
    /\ UNCHANGED <<argv, capture, output_path, video_path, video_links,
                   video_file_paths, audio_file_paths, files, run>>
    /\ IF Len(audio_file_paths) = 0
       THEN /\ mode' = "integrated"
            /\ concat_list' = video_file_paths
            /\ pc' = "integrated_audio_concat"
            /\ UNCHANGED <<status, i, mp4_fragment_paths, dirs, effects>>
       ELSE /\ mode' = "separate"
            /\ IF CountsDiffer(video_file_paths, audio_file_paths)
               THEN /\ Exit("PreconditionError")
                    /\ UNCHANGED <<i, mp4_fragment_paths, concat_list, dirs, effects>>
               ELSE /\ dirs' = safe_makedirs(files, dirs, TempDirPath(output_path))
                    /\ effects' = effects \o MkdirEffects(files, dirs, TempDirPath(output_path))
                    /\ mp4_fragment_paths' = <<>>
                    /\ i' = 1
                    /\ pc' = "separate_loop"
                    /\ UNCHANGED <<status, concat_list>>

\* the two-input call can produce its output
MuxCanWrite(fs, ds, video_file, audio_file, temp_fragment_path) ==
    /\ IsFile(fs, video_file)
    /\ IsFile(fs, audio_file)
    /\ CanCreate(ds, temp_fragment_path)

\* line 114 with the two lists in the other order
Zip_VideoFirst(auds, vids) ==
    [k \in 1..(IF Len(auds) <= Len(vids) THEN Len(auds) ELSE Len(vids)) |->
        <<vids[k], auds[k]>>]

\* zip(audio_file_paths, video_file_paths) (line 114): as long as the shorter
Zip(auds, vids) ==
    [k \in 1..(IF Len(auds) <= Len(vids) THEN Len(auds) ELSE Len(vids)) |->
        <<auds[k], vids[k]>>]

\* one iteration of the loop of separate_audio_concat (lines 118-123)
separate_step ==
    /\ pc = "separate_loop"
    /\ i <= Len(Zip(audio_file_paths, video_file_paths))
    /\ UNCHANGED <<pc, status, argv, capture, output_path, video_path, video_links,
                   video_file_paths, audio_file_paths, concat_list, mode, dirs, run>>
    /\ LET audio_file == Zip(audio_file_paths, video_file_paths)[i][1]
           video_file == Zip(audio_file_paths, video_file_paths)[i][2]
           temp_fragment_path == TempFragmentPath(audio_file)
       IN  /\ effects' = Append(effects, Ev("mux", video_file, audio_file, temp_fragment_path))
           /\ mp4_fragment_paths' = Append(mp4_fragment_paths, temp_fragment_path)
           /\ i' = i + 1
           /\ \E written \in BOOLEAN :
                 /\ written => MuxCanWrite(files, dirs, video_file, audio_file, temp_fragment_path)
                 /\ files' = IF written
                             THEN WriteFile(files, temp_fragment_path,
                                            File("container", <<video_file, audio_file>>, 0))
                             ELSE files

\* the end of the loop and the call of line 127
separate_collect ==
    /\ pc = "separate_loop"
    /\ i > Len(Zip(audio_file_paths, video_file_paths))
    /\ concat_list' = mp4_fragment_paths
    /\ video_path' = join(output_path, basename(output_path) \o S_mp4)
    /\ pc' = "integrated_audio_concat"
    /\ UNCHANGED <<status, argv, capture, output_path, video_links, i, video_file_paths,
                   audio_file_paths, mp4_fragment_paths, mode, files, dirs, effects, run>>

\* the lines of files.txt, each without its  file '...'  wrapping (lines 94-96)
ManifestOf(paths) == [k \in 1..Len(paths) |-> ManifestEntry(paths[k])]

\* file_list_path (line 92)
FileListPath(out) == out \o <<SLASH>> \o S_files_txt

\* video_path when none is passed (lines 99-101)
DefaultVideoPath(out) == out \o <<SLASH>> \o basename(out) \o S_mp4

\* the file a manifest entry names, for the concat demuxer: entries are
\* relative to the directory of the manifest
ResolveEntry(file_list_path, entry) ==
    Parent(Components(file_list_path)) \o Components(entry)

\* the concat call can produce its output: it opens the first entry
ConcatCanWrite(fs, ds, file_list_path, entries, out_file) ==
    /\ entries # <<>>
    /\ entries[1] # <<>>
    /\ ResolveEntry(file_list_path, entries[1]) \in DOMAIN fs
    /\ CanCreate(ds, out_file)

\* integrated_audio_concat (lines 92-104)
integrated_audio_concat ==
    /\ pc = "integrated_audio_concat"
    /\ UNCHANGED <<status, argv, capture, output_path, video_links, i, video_file_paths,
                   audio_file_paths, mp4_fragment_paths, concat_list, mode, dirs, run>>
    /\ LET file_list_path == FileListPath(output_path)
           entries == ManifestOf(concat_list)
           files1 == WriteFile(files, file_list_path, File("manifest", entries, 0))
           out_file == IF mode = "separate" THEN video_path
                       ELSE DefaultVideoPath(output_path)
       IN  /\ video_path' = out_file
           /\ effects' = effects \o <<Ev("write", file_list_path, <<>>, <<>>),
                                      Ev("concat", file_list_path, <<>>, out_file)>>
           /\ pc' = IF mode = "separate" THEN "separate_return" ELSE "validate"
           /\ \E size \in Sizes \cup {-1} :
                 /\ size >= 0 => ConcatCanWrite(files1, dirs, file_list_path, entries, out_file)
                 /\ files' = IF size >= 0
                             THEN WriteFile(files1, out_file, File("video", entries, size))
                             ELSE files1

\* separate_audio_concat returning without line 129
separate_return_keep_temp ==
    /\ pc = "separate_return"
    /\ pc' = "validate"
    /\ UNCHANGED <<status, argv, capture, output_path, video_path, video_links, i,
                   video_file_paths, audio_file_paths, mp4_fragment_paths, concat_list,
                   mode, files, dirs, effects, run>>

\* the end of separate_audio_concat (lines 129-130)
separate_return ==
    /\ pc = "separate_return"
    /\ files' = RmTreeFiles(files, TempDirPath(output_path))
    /\ dirs' = RmTreeDirs(dirs, TempDirPath(output_path))
    /\ effects' = Append(effects, Ev("rmtree", TempDirPath(output_path), <<>>, <<>>))
    /\ pc' = "validate"
    /\ UNCHANGED <<status, argv, capture, output_path, video_path, video_links, i,
                   video_file_paths, audio_file_paths, mp4_fragment_paths, concat_list,
                   mode, run>>

\* line 142 with <= for <
IsSuspect_Inclusive(video_size) == video_size <= SizeLimit

\* the test of line 142
IsSuspect(video_size) == video_size < SizeLimit

\* the rest of fragment_concat (lines 141-147)
validate ==
    /\ pc = "validate"
    /\ UNCHANGED <<argv, capture, output_path, video_path, video_links, i,
                   video_file_paths, audio_file_paths, mp4_fragment_paths, concat_list,
                   mode, run>>
    /\ IF ~IsFile(files, video_path)
       THEN \* os.path.getsize raises FileNotFoundError
            Exit("FileNotFoundError") /\ UNCHANGED <<files, dirs, effects>>
       ELSE LET video_size == files[Components(video_path)].size
            IN  IF IsSuspect(video_size)
                THEN Exit("ValidationWarning") /\ UNCHANGED <<files, dirs, effects>>
                ELSE /\ files' = RmTreeFiles(RemoveFile(files, join(output_path, S_files_txt)),
                                             join(output_path, S_fragments))
                     /\ dirs' = RmTreeDirs(dirs, join(output_path, S_fragments))
                     /\ effects' = effects \o
                            <<Ev("remove", join(output_path, S_files_txt), <<>>, <<>>),
                              Ev("rmtree", join(output_path, S_fragments), <<>>, <<>>)>>
                     /\ Exit("ok")

Next ==
    \/ get_inputs
    \/ scan
    \/ download_enter
    \/ download_step
    \/ download_return
    \/ fragment_concat
    \/ separate_step
    \/ separate_collect
    \/ integrated_audio_concat
    \/ separate_return
    \/ validate

Spec == Init /\ [][Next]_vars

(* ------------------------------------------------------------------ *)
(* download_video_fragments on its own: called on a locator list and a  *)
(* fragment directory in any state, and called again when it returns    *)
(* ------------------------------------------------------------------ *)

Locators == {U_s1_ts, U_t1_ts, U_s2_ts, U_s1_aac, U_s_ts}

LocatorLists == UNION {[1..n -> Locators] : n \in 0..MaxLines}

FetchOutputs == {<<"o">>, <<"u", BSLASH, "o">>}

InitFetch ==
    /\ pc = "download_video_fragments"
    /\ status = "running"
    /\ output_path \in FetchOutputs
    /\ video_links \in LocatorLists
    /\ argv = [har_path |-> <<>>, output |-> output_path]
    /\ capture = <<>>
    /\ video_path = VideoPathOf(output_path)
    /\ i = 0
    /\ video_file_paths = <<>>
    /\ audio_file_paths = <<>>
    /\ mp4_fragment_paths = <<>>
    /\ concat_list = <<>>
    /\ mode = "none"
    /\ effects = <<>>
    /\ run = 0
    /\ \E have \in SUBSET PathsOf(output_path, video_links) :
          /\ files = DiskInterrupted(output_path, have).files
          /\ dirs = DiskInterrupted(output_path, have).dirs

\* the caller calls download_video_fragments again, with the same arguments
download_again ==
    /\ pc = "fragment_concat"
    /\ run < MaxRuns
    /\ pc' = "download_video_fragments"
    /\ UNCHANGED <<status, argv, capture, output_path, video_path, video_links, i,
                   video_file_paths, audio_file_paths, mp4_fragment_paths, concat_list,
                   mode, files, dirs, effects, run>>

NextFetch ==
    \/ download_enter
    \/ download_step
    \/ download_return
    \/ download_again

SpecFetch == InitFetch /\ [][NextFetch]_vars

(* ------------------------------------------------------------------ *)
(* The resumed run: every fragment is on disk from an earlier run, so    *)
(* download_video_fragments fetches nothing and the reassembly gets      *)
(* lists of up to MaxLinks paths                                         *)
(* ------------------------------------------------------------------ *)

MaxLinks == 4

U_s2_aac == <<"h", "/", "s", "2", ".", "a", "a", "c">>

ResumeLocators == {U_s1_ts, U_s2_ts, U_s1_aac, U_s2_aac}

ResumeLists == UNION {[1..n -> ResumeLocators] : n \in 0..MaxLinks}

InitResume ==
    /\ pc = "download_video_fragments"
    /\ status = "running"
    /\ output_path \in FetchOutputs
    /\ video_links \in ResumeLists
    /\ argv = [har_path |-> <<>>, output |-> output_path]
    /\ capture = <<>>
    /\ video_path = VideoPathOf(output_path)
    /\ i = 0
    /\ video_file_paths = <<>>
    /\ audio_file_paths = <<>>
    /\ mp4_fragment_paths = <<>>
    /\ concat_list = <<>>
    /\ mode = "none"
    /\ effects = <<>>
    /\ run = 0
    /\ files = DiskInterrupted(output_path, PathsOf(output_path, video_links)).files
    /\ dirs = DiskInterrupted(output_path, PathsOf(output_path, video_links)).dirs

NextResume ==
    \/ download_enter
    \/ download_step
    \/ download_return
    \/ fragment_concat
    \/ separate_step
    \/ separate_collect
    \/ integrated_audio_concat
    \/ separate_return
    \/ validate

SpecResume == InitResume /\ [][NextResume]_vars

(* ------------------------------------------------------------------ *)
(* Properties                                                           *)
(* ------------------------------------------------------------------ *)

\* the entries of effects since download_video_fragments was last called
RECURSIVE SinceCall(_)
SinceCall(log) ==
    IF log = <<>> THEN <<>>
    ELSE IF log[Len(log)].op = "call" THEN <<>>
    ELSE Append(SinceCall(SubSeq(log, 1, Len(log) - 1)), log[Len(log)])

\* the entries of a log that are the operation op
OpsOf(log, op) == SelectSeq(log, LAMBDA e : e.op = op)

\* no two positions of the locator list derive the same local path
NoCollision(out, links) ==
    \A j, k \in 1..Len(links) :
        j # k /\ ~NumberRaises(links[j]) /\ ~NumberRaises(links[k])
            => OutPath(out, links[j]) # OutPath(out, links[k])

\* C1, as stated: a second call of download_video_fragments over the same
\* locator list, on the fragment directory the first call left, makes no
\* urlretrieve call, whether or not locators share a local path.
C1_SecondRunNoTransfer ==
    run >= 2 => OpsOf(SinceCall(effects), "urlretrieve") = <<>>

\* C1, amended: when no two locators of the list derive the same local path,
\* a second call of download_video_fragments over the same list, on the
\* fragment directory the first call left, makes no urlretrieve call.
C1_SecondRunNoTransferNoCollision ==
    (run >= 2 /\ NoCollision(output_path, video_links))
        => OpsOf(SinceCall(effects), "urlretrieve") = <<>>

\* C1 witness: the second call has returned over two locators with distinct
\* paths, the first call fetched both, and the second fetched nothing.
C1_Witness ==
    /\ run = 2
    /\ pc = "fragment_concat"
    /\ Len(video_links) = 2
    /\ NoCollision(output_path, video_links)
    /\ Len(OpsOf(effects, "urlretrieve")) = 2
    /\ OpsOf(SinceCall(effects), "urlretrieve") = <<>>

\* where the intermediate state of a run lives on disk
FragmentsDir == Components(join(output_path, S_fragments))

TempDir == Components(join(output_path, S_temp))

ManifestFile == Components(join(output_path, S_files_txt))

VideoFile == Components(video_path)

\* a file of the intermediate state: the manifest, a fragment, a temporary
IsIntermediate(c) == c = ManifestFile \/ Below(c, FragmentsDir) \/ Below(c, TempDir)

\* C2, as stated: once the final output is on disk with fewer than 10,000
\* bytes, no later step of fragment_concat, in either strategy, removes the
\* manifest, a fragment file or a temporary container.
C2_SuspectOutputKeepsAll ==
    [][(/\ pc \in {"separate_return", "validate"}
        /\ IsFile(files, video_path)
        /\ files[VideoFile].size < SizeLimit)
            => \A c \in DOMAIN files : IsIntermediate(c) => c \in DOMAIN files']_vars

\* C3: with audio fragments present and the two lists of different lengths,
\* fragment_concat ends the run with the precondition failure and changes
\* neither the disk nor the log of calls; a run ended that way has invoked no
\* external process, written no manifest and created no temp directory.
C3_MismatchAbortsBeforeWork ==
    /\ [][(/\ pc = "fragment_concat"
           /\ Len(audio_file_paths) > 0
           /\ Len(video_file_paths) # Len(audio_file_paths))
               => (/\ status' = "PreconditionError"
                   /\ UNCHANGED <<files, dirs, effects>>)]_vars
    /\ [](status = "PreconditionError"
            => /\ \A k \in 1..Len(effects) : effects[k].op \notin {"mux", "concat", "write"}
               /\ TempDir \notin dirs)

\* C3 witness: a run ended by the precondition failure, the lists differing
C3_Witness ==
    /\ status = "PreconditionError"
    /\ Len(audio_file_paths) > 0
    /\ Len(video_file_paths) # Len(audio_file_paths)

\* C4, as stated: a step that ends the run with an extraction error, a
\* transfer error or the precondition failure leaves every file that was
\* under fragments/ before the step on disk.
C4_AbortKeepsFragments ==
    [][status' \in {"ExtractionError", "TransferError", "PreconditionError"}
          => \A c \in DOMAIN files : Below(c, FragmentsDir) => c \in DOMAIN files']_vars

\* C5, as stated: once get_inputs has returned, the output identifier holds
\* no forbidden character, whether given with --output or derived from the
\* capture file's name.
C5_IdentifierSafe ==
    (pc # "get_inputs" /\ status # "InputError")
        => \A k \in 1..Len(output_path) : output_path[k] \notin ForbiddenChars

\* C6: the validation step removes files.txt and the fragments directory when
\* the final output has 10,000 bytes or more, and leaves the disk as it is,
\* both still there, when it has fewer.
C6_CleanupGating ==
    [][(pc = "validate" /\ IsFile(files, video_path))
          => IF files[VideoFile].size >= SizeLimit
             THEN /\ ManifestFile \notin DOMAIN files'
                  /\ FragmentsDir \notin dirs'
                  /\ \A c \in DOMAIN files' : ~Below(c, FragmentsDir)
                  /\ ManifestFile \in DOMAIN files
                  /\ FragmentsDir \in dirs
             ELSE /\ UNCHANGED <<files, dirs>>
                  /\ ManifestFile \in DOMAIN files
                  /\ FragmentsDir \in dirs]_vars

\* C6 witness: a run cleaned up after an output of exactly 10,000 bytes
C6_Witness ==
    /\ status = "ok"
    /\ IsFile(files, video_path)
    /\ files[VideoFile].size = SizeLimit
    /\ ManifestFile \notin DOMAIN files
    /\ FragmentsDir \notin dirs

\* C7, as stated: after integrated_audio_concat, files.txt holds one entry per
\* path of the list it was given, in order, and each entry, taken relative to
\* the directory of files.txt, names that path.
C7_ManifestRelative ==
    pc \in {"separate_return", "validate"}
        => LET file_list_path == FileListPath(output_path)
               entries == files[Components(file_list_path)].data
           IN  /\ Len(entries) = Len(concat_list)
               /\ \A k \in 1..Len(entries) :
                     /\ entries[k] # <<>>
                     /\ ResolveEntry(file_list_path, entries[k]) = Components(concat_list[k])

\* the locators download_video_fragments has gone through so far
Processed ==
    IF pc = "download_loop" \/ status \in {"TransferError", "IndexError"} THEN i - 1
    ELSE IF \/ pc \in {"get_inputs", "get_video_links_from_har", "download_video_fragments"}
            \/ status \in {"InputError", "declined", "TooManyInvalidChoices",
                           "ExtractionError"}
         THEN 0
    ELSE Len(video_links)

\* the paths of the first n locators that are audio (or that are not), each
\* at the place where it first occurs
FirstOccurrences(out, links, n, audio) ==
    LET first == SelectSeq([k \in 1..n |-> k],
                           LAMBDA k : /\ EndsWith(links[k], S_aac) = audio
                                      /\ \A j \in 1..(k - 1) :
                                            OutPath(out, links[j]) # OutPath(out, links[k]))
    IN  [m \in 1..Len(first) |-> OutPath(out, links[first[m]])]

\* p is q or the beginning of q
IsPrefix(p, q) == Len(p) <= Len(q) /\ SubSeq(q, 1, Len(p)) = p

\* C8: at every step each of the two lists holds, without repetition, the
\* paths of the locators gone through so far, in the order in which each path
\* first occurs in the locator list, and a step of the loop only appends.
C8_CaptureOrderNoRepeat ==
    /\ [](/\ video_file_paths = FirstOccurrences(output_path, video_links, Processed, FALSE)
          /\ audio_file_paths = FirstOccurrences(output_path, video_links, Processed, TRUE)
          /\ \A j, k \in 1..Len(video_file_paths) :
                video_file_paths[j] = video_file_paths[k] => j = k
          /\ \A j, k \in 1..Len(audio_file_paths) :
                audio_file_paths[j] = audio_file_paths[k] => j = k)
    /\ [][pc = "download_loop"
            => /\ IsPrefix(video_file_paths, video_file_paths')
               /\ IsPrefix(audio_file_paths, audio_file_paths')]_vars

\* C8 witness: the fetch returned two video paths in capture order, which is
\* not the order of their sequence numbers
C8_Witness ==
    /\ pc = "fragment_concat"
    /\ video_links = <<U_s2_ts, U_s1_ts>>
    /\ video_file_paths = <<OutPath(output_path, U_s2_ts), OutPath(output_path, U_s1_ts)>>

\* the claim's candidate line, on the text of a generated line
IsCandidate(tokens) ==
    /\ \/ Contains(LineText(tokens), S_mp4)
       \/ Contains(LineText(tokens), S_ts)
       \/ Contains(LineText(tokens), S_aac)
    /\ ~Contains(LineText(tokens), S_value)

\* the 4th tokens, as generated, of the candidate lines whose 4th token ends
\* in .ts or .aac, in line order
ExpectedLinks(lines) ==
    LET wanted == SelectSeq(lines,
                            LAMBDA t : /\ IsCandidate(t)
                                       /\ EndsWith(t[4], S_ts) \/ EndsWith(t[4], S_aac))
    IN  [k \in 1..Len(wanted) |-> wanted[k][4]]

\* C9: on a capture whose candidate lines all have at least 4 tokens, the scan
\* returns exactly the 4th tokens of the candidate lines that end in .ts or
\* .aac, in line order; no .mp4 locator is among them.
C9_ScanResult ==
    (/\ pc \notin {"get_inputs", "get_video_links_from_har"}
     /\ status \notin {"InputError", "declined", "TooManyInvalidChoices", "ExtractionError"}
     /\ \A k \in 1..Len(capture) : IsCandidate(capture[k]) => Len(capture[k]) >= 4)
        => /\ video_links = ExpectedLinks(capture)
           /\ \A k \in 1..Len(video_links) : ~EndsWith(video_links[k], S_mp4)

\* C9 witness: the scan has returned one locator from a capture of a .mp4
\* line and a .ts line
C9_Witness ==
    /\ pc = "download_video_fragments"
    /\ capture = <<UrlLine(U_v_mp4), UrlLine(U_s1_ts)>>
    /\ video_links = <<U_s1_ts>>

\* C10: a run that ended after an output of 10,000 bytes or more leaves the
\* final output on disk and nothing else of its own: no fragments directory,
\* no temp directory, no files.txt, no temporary container anywhere.
C10_CompletedRunLeavesOnlyOutput ==
    status = "ok"
        => /\ IsFile(files, join(output_path, basename(output_path) \o S_mp4))
           /\ files[VideoFile].size >= SizeLimit
           /\ FragmentsDir \notin dirs
           /\ TempDir \notin dirs
           /\ ManifestFile \notin DOMAIN files
           /\ \A c \in DOMAIN files :
                 /\ files[c].kind # "container"
                 /\ ~Below(c, FragmentsDir)
                 /\ ~Below(c, TempDir)

\* C10 witness: a separate-track run that wrote a temporary container and
\* ended after an output of 10,000 bytes or more
C10_Witness ==
    /\ status = "ok"
    /\ mode = "separate"
    /\ Len(mp4_fragment_paths) >= 1
    /\ files[VideoFile].size >= SizeLimit

\* the claim's examples of locators
X_segment12345x_ts ==
    <<"s", "e", "g", "m", "e", "n", "t", "1", "2", "3", "4", "5", "x", ".", "t", "s">>

X_segment3_ts == <<"s", "e", "g", "m", "e", "n", "t", "3", ".", "t", "s">>

X_segment100003_ts ==
    <<"s", "e", "g", "m", "e", "n", "t", "1", "0", "0", "0", "0", "3", ".", "t", "s">>

\* the last run of digits of s, read from its end: the digits that end at
\* the last digit of s
LastDigitRun(s) ==
    LET last == CHOOSE e \in 1..Len(s) :
                    s[e] \in Digits /\ \A k \in (e + 1)..Len(s) : s[k] \notin Digits
        first == CHOOSE b \in 1..last :
                    /\ \A k \in b..last : s[k] \in Digits
                    /\ b = 1 \/ s[b - 1] \notin Digits
    IN  SubSeq(s, first, last)

\* a run of digits padded with zeros to 5 characters, or cut to its last 5
PadOrCut5(digits) ==
    IF Len(digits) >= 5 THEN SubSeq(digits, Len(digits) - 4, Len(digits))
    ELSE [k \in 1..5 |-> IF k <= 5 - Len(digits) THEN "0" ELSE digits[k - (5 - Len(digits))]]

\* C11, as stated: the sequence number of a locator is its last run of digits,
\* padded with zeros to 5 characters and cut to its last 5 digits, as in the
\* examples segment12345x.ts, segment3.ts and segment100003.ts; and every
\* locator the scan returns yields a sequence number.
C11_SequenceNumber ==
    /\ NumberOf(X_segment12345x_ts) = <<"1", "2", "3", "4", "5">>
    /\ NumberOf(X_segment3_ts) = <<"0", "0", "0", "0", "3">>
    /\ NumberOf(X_segment100003_ts) = <<"0", "0", "0", "0", "3">>
    /\ \A k \in 1..Len(video_links) :
          /\ ~NumberRaises(video_links[k])
          /\ NumberOf(video_links[k]) = PadOrCut5(LastDigitRun(video_links[k]))
    /\ status # "IndexError"

\* what download_video_fragments returns, computed from the locator list and
\* the output identifier alone: the audio paths and the other paths
ReturnedFor(out, links) ==
    <<FirstOccurrences(out, links, Len(links), TRUE),
      FirstOccurrences(out, links, Len(links), FALSE)>>

\* C12: whenever download_video_fragments returns, from whatever fragments
\* were on disk when it was called, the audio and video lists it returns are
\* the ones determined by the locator list and the output identifier.
C12_ReturnIgnoresDisk ==
    pc = "fragment_concat"
        => <<audio_file_paths, video_file_paths>> = ReturnedFor(output_path, video_links)

\* C12 witness: the call returned one video and one audio path although the
\* video fragment was on disk from an earlier run and the audio fragment had
\* to be fetched
C12_Witness ==
    /\ pc = "fragment_concat"
    /\ run = 1
    /\ video_links = <<U_s1_ts, U_s1_aac>>
    /\ files[Components(OutPath(output_path, U_s1_ts))] = OldFragment
    /\ Len(OpsOf(effects, "urlretrieve")) = 1
    /\ video_file_paths = <<OutPath(output_path, U_s1_ts)>>
    /\ audio_file_paths = <<OutPath(output_path, U_s1_aac)>>

\* the answers input() has read so far, as typed
AnswersRead == [k \in 1..Len(OpsOf(effects, "input")) |-> OpsOf(effects, "input")[k].a[1]]

\* an answer that confirms, and one that declines
SaysYes(answer) == answer \in {"y", "Y"}

SaysNo(answer) == answer \in {"n", "N"}

\* C13: when the final output's path exists and the operator does not
\* confirm (answers n, or gives two invalid answers), the run ends having
\* deleted nothing, created nothing, fetched nothing and called no external
\* process; the existing output is deleted, and the run goes on to the scan,
\* only after the answer y.
C13_OverwriteGuard ==
    /\ [](status \in {"declined", "TooManyInvalidChoices"}
            => /\ pc = "exit"
               /\ \A k \in 1..Len(effects) : effects[k].op = "input"
               /\ IsFile(files, video_path)
               /\ ~SaysYes(AnswersRead[Len(AnswersRead)]))
    /\ [](\A k \in 1..Len(effects) :
            (effects[k].op = "remove" /\ effects[k].a = video_path)
                => /\ k > 1
                   /\ effects[k - 1].op = "input"
                   /\ SaysYes(effects[k - 1].a[1]))
    /\ [][(pc = "get_inputs" /\ status' # "InputError" /\ Exists(files, dirs, video_path'))
            => LET read == [k \in 1..Len(OpsOf(effects', "input")) |->
                               OpsOf(effects', "input")[k].a[1]]
                   last == read[Len(read)]
               IN  /\ Len(read) \in {1, 2}
                   /\ Len(read) = 2 => ~SaysYes(read[1]) /\ ~SaysNo(read[1])
                   /\ IF SaysYes(last)
                      THEN /\ pc' = "get_video_links_from_har"
                           /\ ~Exists(files', dirs', video_path')
                           /\ dirs' = dirs
                      ELSE /\ pc' = "exit"
                           /\ status' = IF SaysNo(last) THEN "declined"
                                        ELSE "TooManyInvalidChoices"
                           /\ files' = files
                           /\ dirs' = dirs
                           /\ \A k \in 1..Len(effects') : effects'[k].op = "input"]_vars

\* C13 witness: the output existed, the operator gave two invalid answers and
\* the run ended with the output still on disk
C13_Witness ==
    /\ status = "TooManyInvalidChoices"
    /\ AnswersRead = <<"x", "x">>
    /\ IsFile(files, video_path)

\* the positions of effects that are the operation op
PositionsOf(op) == {k \in 1..Len(effects) : effects[k].op = op}

\* the separate-track reassembly is under way on lists of equal length
SeparateTracks == mode = "separate" /\ Len(video_file_paths) = Len(audio_file_paths)

\* C14: in the separate-track reassembly of n video and n audio fragments the
\* two-input call is made exactly n times, the k-th on the k-th video fragment
\* as video input and the k-th audio fragment as audio input; all n calls come
\* before the one concat call, whose manifest names the n temporary outputs
\* in index order; and the temporary directory is removed only after that
\* concat call.
C14_MuxThenConcatThenRemove ==
    SeparateTracks
        => LET n == Len(video_file_paths)
               muxes == OpsOf(effects, "mux")
               concats == PositionsOf("concat")
           IN  /\ Len(muxes) <= n
               /\ \A k \in 1..Len(muxes) :
                     /\ muxes[k].a = video_file_paths[k]
                     /\ muxes[k].b = audio_file_paths[k]
               /\ \A j, k \in 1..Len(muxes) : muxes[j].c = muxes[k].c => j = k
               /\ Cardinality(concats) <= 1
               /\ \A p \in concats :
                     /\ Len(muxes) = n
                     /\ \A q \in PositionsOf("mux") : q < p
               /\ pc \in {"separate_return", "validate", "exit"} /\ status # "PreconditionError"
                     => Cardinality(concats) = 1
               /\ pc \in {"separate_return", "validate"}
                     => /\ ManifestFile \in DOMAIN files
                        /\ Len(files[ManifestFile].data) = n
                        /\ \A k \in 1..n :
                              EndsWith(files[ManifestFile].data[k], basename(muxes[k].c))
               /\ concats = {} /\ pc # "exit" /\ pc # "fragment_concat" => TempDir \in dirs
               /\ \A q \in PositionsOf("rmtree") :
                     effects[q].a = TempDirPath(output_path) => \E p \in concats : p < q

\* C14 witness: two pairs were muxed, paired by index and not by sequence
\* number, the concat call was made and the temporary directory is gone
C14_Witness ==
    /\ pc = "validate"
    /\ mode = "separate"
    /\ video_links = <<U_s1_ts, U_s2_ts, U_s2_aac, U_s1_aac>>
    /\ Len(OpsOf(effects, "mux")) = 2
    /\ OpsOf(effects, "mux")[1].a = OutPath(output_path, U_s1_ts)
    /\ OpsOf(effects, "mux")[1].b = OutPath(output_path, U_s2_aac)
    /\ TempDir \notin dirs
    /\ IsFile(files, video_path)

\* the positions of the locator list that derive the path p
PositionsDeriving(p) ==
    {k \in 1..Len(video_links) :
        ~NumberRaises(video_links[k]) /\ OutPath(output_path, video_links[k]) = p}

\* the number of places of the two lists that hold p
TimesRecorded(p) ==
    Cardinality({k \in 1..Len(video_file_paths) : video_file_paths[k] = p})
        + Cardinality({k \in 1..Len(audio_file_paths) : audio_file_paths[k] = p})

\* C15: when two locators of one run derive the same local path, the later
\* one's step deletes the file and fetches it again, so that when
\* download_video_fragments returns the file holds what was fetched from the
\* last of them; the path is recorded once, at the place of its first
\* occurrence.
C15_CollisionLastWins ==
    /\ [](pc = "fragment_concat"
            => /\ \A p \in PathsOf(output_path, video_links) :
                     /\ TimesRecorded(p) = 1
                     /\ Cardinality(PositionsDeriving(p)) >= 2
                           => LET last == CHOOSE k \in PositionsDeriving(p) :
                                              \A j \in PositionsDeriving(p) : j <= k
                              IN  /\ IsFile(files, p)
                                  /\ files[Components(p)].kind = "fragment"
                                  /\ files[Components(p)].data = <<video_links[last]>>
               /\ \A seq \in {video_file_paths, audio_file_paths} :
                     \A j, k \in 1..Len(seq) :
                        j < k => \E a \in PositionsDeriving(seq[j]) :
                                    \A b \in PositionsDeriving(seq[k]) : a < b)
    /\ [][(/\ pc = "download_loop"
           /\ i' = i + 1
           /\ \E j \in 1..(i - 1) :
                 OutPath(output_path, video_links[j]) = OutPath(output_path, video_links[i]))
            => LET p == OutPath(output_path, video_links[i])
                   n == Len(effects')
               IN  /\ n = Len(effects) + 2
                   /\ effects'[n - 1] = Ev("remove", p, <<>>, <<>>)
                   /\ effects'[n] = Ev("urlretrieve", video_links[i], <<>>, p)
                   /\ files'[Components(p)].data = <<video_links[i]>>
                   /\ UNCHANGED <<video_file_paths, audio_file_paths>>]_vars

\* C15 witness: two locators derived one path, which was on disk before the
\* call; the call returned with the path recorded once and the file holding
\* what the second locator gave
C15_Witness ==
    /\ pc = "fragment_concat"
    /\ run = 1
    /\ video_links = <<U_s1_ts, U_t1_ts>>
    /\ video_file_paths = <<OutPath(output_path, U_s1_ts)>>
    /\ files[Components(OutPath(output_path, U_s1_ts))].data = <<U_t1_ts>>
    /\ OpsOf(effects, "urlretrieve") =
          <<Ev("urlretrieve", U_t1_ts, <<>>, OutPath(output_path, U_s1_ts))>>

\* C17: whenever download_video_fragments returns, every path of its two
\* lists is a file on disk, whatever was on disk at the call and however many
\* locators collide; and the step of a locator whose path is on disk and in
\* neither list makes no call at all and leaves the disk as it is.
C17_RecordedPathsExist ==
    /\ [](pc = "fragment_concat"
            => /\ \A k \in 1..Len(video_file_paths) : IsFile(files, video_file_paths[k])
               /\ \A k \in 1..Len(audio_file_paths) : IsFile(files, audio_file_paths[k]))
    /\ [][(/\ pc = "download_loop"
           /\ i <= Len(video_links)
           /\ status' # "IndexError"
           /\ LET p == OutPath(output_path, video_links[i])
              IN  /\ IsFile(files, p)
                  /\ ~InSeq(p, video_file_paths)
                  /\ ~InSeq(p, audio_file_paths))
            => /\ effects' = effects
               /\ files' = files
               /\ dirs' = dirs
               /\ i' = i + 1
               /\ InSeq(OutPath(output_path, video_links[i]),
                        video_file_paths' \o audio_file_paths')]_vars

\* C17 witness: a call over two locators returned;
\* the path that was on disk before the call still holds its old content and
\* was never fetched
C17_Witness ==
    /\ pc = "fragment_concat"
    /\ run = 1
    /\ Len(video_links) = 2
    /\ video_links[1] = U_s2_ts
    /\ video_links[2] = U_s1_aac
    /\ files[Components(OutPath(output_path, U_s2_ts))] = OldFragment
    /\ files[Components(OutPath(output_path, U_s1_aac))].data = <<U_s1_aac>>
    /\ Len(OpsOf(effects, "urlretrieve")) = 1

\* C16: the strategy is chosen once, from the two lists: with an empty audio
\* list the integrated strategy runs, which makes exactly one concat call over
\* the manifest of the video list, no two-input call and no temporary
\* directory; otherwise the separate-track strategy runs.  The audio list
\* holds exactly the paths whose extension is aac, the video list the others.
C16_StrategyFromFragmentSet ==
    /\ [](/\ pc \in {"download_video_fragments", "download_loop", "fragment_concat"}
                => mode = "none"
          /\ pc \in {"integrated_audio_concat", "separate_loop", "separate_return", "validate"}
                => mode # "none"
          /\ mode = "integrated" => audio_file_paths = <<>>
          /\ mode = "separate" => audio_file_paths # <<>>
          /\ mode = "integrated"
                => /\ OpsOf(effects, "mux") = <<>>
                   /\ \A k \in 1..Len(effects) :
                         effects[k].op = "makedirs" => effects[k].a # TempDirPath(output_path)
                   /\ TempDir \notin dirs
                   /\ Len(OpsOf(effects, "concat")) =
                         (IF pc = "integrated_audio_concat" THEN 0 ELSE 1)
                   /\ pc = "validate"
                         => /\ Len(files[ManifestFile].data) = Len(video_file_paths)
                            /\ \A k \in 1..Len(video_file_paths) :
                                  EndsWith(files[ManifestFile].data[k],
                                           basename(video_file_paths[k]))
          /\ \A k \in 1..Len(audio_file_paths) : EndsWith(audio_file_paths[k], <<".">> \o S_ext_aac)
          /\ \A k \in 1..Len(video_file_paths) : ~EndsWith(video_file_paths[k], <<".">> \o S_ext_aac)
          /\ mode # "none"
                => \A p \in PathsOf(output_path, video_links) :
                      InSeq(p, audio_file_paths) \/ InSeq(p, video_file_paths))
    /\ [][mode # "none" => mode' = mode]_vars

\* C16 witness: two video fragments and no audio; the integrated strategy
\* made its one concat call and the output is on disk
C16_Witness ==
    /\ pc = "validate"
    /\ mode = "integrated"
    /\ Len(video_file_paths) = 2
    /\ Len(OpsOf(effects, "concat")) = 1
    /\ IsFile(files, video_path)

\* the capture has a candidate line of fewer than 4 tokens
HasShortCandidate(lines) ==
    \E k \in 1..Len(lines) : IsCandidate(lines[k]) /\ Len(lines[k]) < 4

\* the side effects of the pipeline proper
PipelineOps == {"makedirs", "urlretrieve", "mux", "write", "concat", "rmtree"}

\* C18: the whole capture is scanned before anything else is done, so that a
\* candidate line of fewer than 4 tokens anywhere in it, a .mp4 line
\* included, ends the run at the scan: no directory is created, no fragment
\* fetched and no external process called.
C18_ShortLineAbortsBeforeWork ==
    /\ [](HasShortCandidate(capture)
            => /\ \A k \in 1..Len(effects) : effects[k].op \notin PipelineOps
               /\ pc \in {"get_inputs", "get_video_links_from_har", "exit"}
               /\ status \in {"running", "InputError", "declined", "TooManyInvalidChoices",
                              "ExtractionError"})
    /\ [][HasShortCandidate(capture)
            => /\ dirs' = dirs
               /\ DOMAIN files' \subseteq DOMAIN files
               /\ pc = "get_video_links_from_har"
                     => /\ pc' = "exit"
                        /\ status' = "ExtractionError"
                        /\ UNCHANGED <<files, effects>>]_vars
    /\ []((\E k \in 1..Len(effects) : effects[k].op \in PipelineOps)
            => pc \notin {"get_inputs", "get_video_links_from_har"})

\* C18 witness: the capture's second line is a .mp4 line of one token, after
\* a well-formed .ts line, and the run ended at the scan
C18_Witness ==
    /\ status = "ExtractionError"
    /\ Len(capture) = 2
    /\ capture[1] = UrlLine(U_s1_ts)
    /\ Len(capture[2]) = 1
    /\ EndsWith(capture[2][1], S_mp4)
    /\ \A k \in 1..Len(effects) : effects[k].op \notin PipelineOps

====
